---- MODULE Spec2Model ----
\* Model of the OpenSK flash syscall driver of tock-on-titan
\* (kernel/h1_syscalls/src/opensk_syscall.rs): the per-process grant, the
\* admission marker `waiting`, the chunked write state `writing`, and the
\* completion path, together with the flash hardware it drives.
EXTENDS Integers, Sequences, FiniteSets, TLC

\* ------------------------------------------------------------------
\* Program constants (opensk_syscall.rs:25-36)
\* ------------------------------------------------------------------
WORD_SIZE == 4
PAGE_SIZE == 2048
FLASH_START == 262144
MAX_WORD_WRITES == 2
MAX_PAGE_ERASES == 10000
MAX_WRITE_LENGTH == 32
WORD_MASK == WORD_SIZE - 1
PAGE_MASK == PAGE_SIZE - 1
WEIRD_SIZE == 64

\* ------------------------------------------------------------------
\* Bounds of the model
\* ------------------------------------------------------------------
\* largest shared region, in words
MaxWords == 64

\* the processes holding a grant
AppIds == {1, 2}
None == [none |-> TRUE]
Some(v) == [some |-> v]

\* ReturnCode values
RC(c) == [code |-> c, value |-> 0]
SUCCESS == RC("SUCCESS")
FAIL == RC("FAIL")
EBUSY == RC("EBUSY")
EINVAL == RC("EINVAL")
ENOSUPPORT == RC("ENOSUPPORT")
SuccessWithValue(v) == [code |-> "SuccessWithValue", value |-> v]

\* x & mask for a mask of the form 2^k - 1
BitAnd(x, mask) == x % (mask + 1)
Min(a, b) == IF a <= b THEN a ELSE b

\* ------------------------------------------------------------------
\* Inputs user processes and the hardware can supply
\* ------------------------------------------------------------------
\* lengths in bytes of the regions a process shares: empty, not word-aligned,
\* one full hardware call, and the largest region
SliceLens == {0, 6, WORD_SIZE * MAX_WRITE_LENGTH, WORD_SIZE * MaxWords}
\* a region of process p; a region is identified by its owner and length
AppSlice(p, n) == [app |-> p, len |-> n]
\* the callback of process p
Callback(p) == [app_id |-> p]
\* byte addresses passed to write: the base, 32 and 48 words above it,
\* one not word-aligned, one below the base
WritePtrs ==
    {FLASH_START, FLASH_START + WORD_SIZE * 32, FLASH_START + WORD_SIZE * 48,
     FLASH_START + 2, FLASH_START - WORD_SIZE}
\* byte addresses passed to erase: pages 0 and 1, one not page-aligned,
\* one page-aligned below the base
ErasePtrs ==
    {FLASH_START, FLASH_START + PAGE_SIZE, FLASH_START + WORD_SIZE,
     FLASH_START - PAGE_SIZE}
EraseLens == {PAGE_SIZE, WORD_SIZE * MAX_WRITE_LENGTH}
\* completion statuses of the hardware
HwStatuses == {SUCCESS, FAIL}

VARIABLES
    apps,       \* Grant<App>: per process [callback, slice]
    waiting,    \* OptionalCell<AppId>: the outstanding-operation marker
    writing,    \* OptionalCell<WriteState>: [ptr, slice, offset]
    panicked,   \* TRUE once an unwrap() has failed
    inflight,   \* hardware: calls issued to the flash and not yet completed
    req,        \* history: the accepted request, kept until the entry point
                \* after the one that finalized it
    calls,      \* history: hardware calls issued for req, in issue order
    statuses,   \* history: completion statuses delivered for req, in order
    cbs,        \* history: callbacks scheduled since req was accepted
    last,       \* history: the entry point that ran last and what it returned
    fake,       \* FakeHw: the fake flash hardware of the h1b tests
    tpc         \* the position of the fake's user within one operation

vars ==
    <<apps, waiting, writing, panicked, inflight, req, calls, statuses, cbs, last,
      fake, tpc>>

\* ------------------------------------------------------------------
\* The driver.  An entry point runs on a record d of the driver's fields
\* plus the outputs of the entry point: `issued` (calls made on the flash)
\* and `sched` (callbacks scheduled).
\* ------------------------------------------------------------------
Driver ==
    [apps |-> apps, waiting |-> waiting, writing |-> writing,
     panicked |-> FALSE, issued |-> <<>>, sched |-> <<>>]

\* Flash::write(target, data): the hardware accepts the call and completes it
\* later through write_done
flash_write(d, target, data) ==
    [d |-> [d EXCEPT !.issued = Append(@, [op |-> "write", target |-> target,
                                           len |-> Len(data), data |-> data])],
     ret |-> SUCCESS]

\* Flash::erase(target): the hardware accepts the call and completes it later
\* through erase_done
flash_erase(d, target) ==
    [d |-> [d EXCEPT !.issued = Append(@, [op |-> "erase", target |-> target, len |-> 0])],
     ret |-> SUCCESS]

\* byte i of a shared region: the low byte of each word of the region is the
\* index of the word, the other three bytes tell the owner
SliceByte(slice, i) ==
    IF i % WORD_SIZE = 0 THEN (i \div WORD_SIZE) % 128
    ELSE 16 * (i % WORD_SIZE) + slice.app

\* WORD::from_ne_bytes on the little-endian target
from_ne_bytes(b) == b[1] + 256 * b[2] + 65536 * b[3] + 16777216 * b[4]

\* the slice.chunks(WORD_SIZE) of the bytes of the region from byte `start` on
chunks(slice, start) ==
    [k \in 1..((slice.len - start) \div WORD_SIZE) |->
        [j \in 1..WORD_SIZE |-> SliceByte(slice, start + (k - 1) * WORD_SIZE + j - 1)]]

\* the words copied into WRITE_BUFFER[..data_length]: the zip of the buffer
\* with the chunks of the region from the cursor on
chunk_data(state, data_length) ==
    LET src == chunks(state.slice, state.offset * WORD_SIZE)
    IN  [k \in 1..Min(data_length, Len(src)) |-> from_ne_bytes(src[k])]

\* write_block cutting chunks at the call limit only
write_block_noboundary(d, state) ==
    LET max_length == MAX_WRITE_LENGTH
        data_length == Min((state.slice.len \div WORD_SIZE) - state.offset, max_length)
        target == state.ptr + state.offset - (FLASH_START \div WORD_SIZE)
        d1 == [d EXCEPT !.writing = [state EXCEPT !.offset = @ + data_length]]
    IN  flash_write(d1, target, chunk_data(state, data_length))

\* write_block addressing every chunk at the start of the destination
write_block_nocursor(d, state) ==
    LET max_length ==
            Min(WEIRD_SIZE - ((state.ptr + state.offset) % WEIRD_SIZE), MAX_WRITE_LENGTH)
        data_length == Min((state.slice.len \div WORD_SIZE) - state.offset, max_length)
        target == state.ptr - (FLASH_START \div WORD_SIZE)
        d1 == [d EXCEPT !.writing = [state EXCEPT !.offset = @ + data_length]]
    IN  flash_write(d1, target, chunk_data(state, data_length))

\* write_block copying the words from the start of the region for every chunk
write_block_nooffset(d, state) ==
    LET max_length ==
            Min(WEIRD_SIZE - ((state.ptr + state.offset) % WEIRD_SIZE), MAX_WRITE_LENGTH)
        data_length == Min((state.slice.len \div WORD_SIZE) - state.offset, max_length)
        target == state.ptr + state.offset - (FLASH_START \div WORD_SIZE)
        d1 == [d EXCEPT !.writing = [state EXCEPT !.offset = @ + data_length]]
    IN  flash_write(d1, target, chunk_data([state EXCEPT !.offset = 0], data_length))

\* write_block issuing the call without storing the pending-write state
write_block_nostate(d, state) ==
    LET max_length ==
            Min(WEIRD_SIZE - ((state.ptr + state.offset) % WEIRD_SIZE), MAX_WRITE_LENGTH)
        data_length == Min((state.slice.len \div WORD_SIZE) - state.offset, max_length)
        target == state.ptr + state.offset - (FLASH_START \div WORD_SIZE)
    IN  flash_write(d, target, chunk_data(state, data_length))

\* usize arithmetic: with ptr >= FLASH_START checked by write_slice and
\* offset <= slice.len / WORD_SIZE, neither subtraction can wrap
write_block(d, state) ==
    LET max_length ==
            Min(WEIRD_SIZE - ((state.ptr + state.offset) % WEIRD_SIZE), MAX_WRITE_LENGTH)
        data_length == Min((state.slice.len \div WORD_SIZE) - state.offset, max_length)
        target == state.ptr + state.offset - (FLASH_START \div WORD_SIZE)
        d1 == [d EXCEPT !.writing = [state EXCEPT !.offset = @ + data_length]]
    IN  flash_write(d1, target, chunk_data(state, data_length))

\* write_slice without the check of the address alignment
write_slice_noalign(d, ptr, slice) ==
    IF ptr < FLASH_START \/ BitAnd(slice.len, WORD_MASK) # 0
    THEN [d |-> d, ret |-> EINVAL]
    ELSE write_block(d, [ptr |-> ptr \div WORD_SIZE, slice |-> slice, offset |-> 0])

write_slice(d, ptr, slice) ==
    IF ptr < FLASH_START \/ BitAnd(ptr, WORD_MASK) # 0 \/ BitAnd(slice.len, WORD_MASK) # 0
    THEN [d |-> d, ret |-> EINVAL]
    ELSE write_block(d, [ptr |-> ptr \div WORD_SIZE, slice |-> slice, offset |-> 0])

\* erase_page taking the page index from the absolute address
erase_page_absolute(d, ptr) ==
    IF ptr < FLASH_START \/ BitAnd(ptr, PAGE_MASK) # 0
    THEN [d |-> d, ret |-> EINVAL]
    ELSE flash_erase(d, ptr \div PAGE_SIZE)

\* erase_page without the check of the page alignment
erase_page_noalign(d, ptr) ==
    IF ptr < FLASH_START
    THEN [d |-> d, ret |-> EINVAL]
    ELSE flash_erase(d, (ptr - FLASH_START) \div PAGE_SIZE)

erase_page(d, ptr) ==
    IF ptr < FLASH_START \/ BitAnd(ptr, PAGE_MASK) # 0
    THEN [d |-> d, ret |-> EINVAL]
    ELSE flash_erase(d, (ptr - FLASH_START) \div PAGE_SIZE)

\* done looking up the record of the other process
done_wrongapp(d, status) ==
    IF d.waiting = None
    THEN d
    ELSE LET appid == CHOOSE q \in AppIds : q # d.waiting.some
             d1 == [d EXCEPT !.waiting = None]
         IN  IF d.apps[appid].callback = None
             THEN d1
             ELSE [d1 EXCEPT !.sched = Append(@,
                      [cb |-> d.apps[appid].callback, status |-> status,
                       arg1 |-> 0, arg2 |-> 0])]

\* done keeping the marker until a callback can take the status
done_keepmarker(d, status) ==
    IF d.waiting = None
    THEN d
    ELSE LET appid == d.waiting.some
             d1 == [d EXCEPT !.waiting = None]
         IN  IF d.apps[appid].callback = None
             THEN d
             ELSE [d1 EXCEPT !.sched = Append(@,
                      [cb |-> d.apps[appid].callback, status |-> status,
                       arg1 |-> 0, arg2 |-> 0])]

done(d, status) ==
    IF d.waiting = None
    THEN d
    ELSE LET appid == d.waiting.some
             d1 == [d EXCEPT !.waiting = None]
         IN  IF d.apps[appid].callback = None
             THEN d1
             ELSE [d1 EXCEPT !.sched = Append(@,
                      [cb |-> d.apps[appid].callback, status |-> status,
                       arg1 |-> 0, arg2 |-> 0])]

\* subscribe cancelling the caller's outstanding operation when the caller
\* withdraws its callback
subscribe_cancel(d, subscribe_num, callback, appid) ==
    IF subscribe_num = 0
    THEN [d |-> [d EXCEPT !.apps[appid].callback = callback,
                          !.waiting = IF callback = None /\ @ = Some(appid) THEN None ELSE @],
          ret |-> SUCCESS]
    ELSE [d |-> d, ret |-> ENOSUPPORT]

subscribe(d, subscribe_num, callback, appid) ==
    IF subscribe_num = 0
    THEN [d |-> [d EXCEPT !.apps[appid].callback = callback], ret |-> SUCCESS]
    ELSE [d |-> d, ret |-> ENOSUPPORT]

\* allow handing the new region to the caller's write in flight as well
allow_updatewriting(d, appid, allow_num, slice) ==
    IF allow_num = 0
    THEN [d |-> [d EXCEPT !.apps[appid].slice = slice,
                          !.writing = IF @ # None /\ slice # None /\ d.waiting = Some(appid)
                                      THEN [@ EXCEPT !.slice = slice] ELSE @],
          ret |-> SUCCESS]
    ELSE [d |-> d, ret |-> ENOSUPPORT]

allow(d, appid, allow_num, slice) ==
    IF allow_num = 0
    THEN [d |-> [d EXCEPT !.apps[appid].slice = slice], ret |-> SUCCESS]
    ELSE [d |-> d, ret |-> ENOSUPPORT]

\* command 1 answering the two endurance limits in each other's place
command_query_swapped(d, arg0) ==
    CASE arg0 = 0 -> [d |-> d, ret |-> SuccessWithValue(WORD_SIZE)]
      [] arg0 = 1 -> [d |-> d, ret |-> SuccessWithValue(PAGE_SIZE)]
      [] arg0 = 2 -> [d |-> d, ret |-> SuccessWithValue(MAX_PAGE_ERASES)]
      [] arg0 = 3 -> [d |-> d, ret |-> SuccessWithValue(MAX_WORD_WRITES)]
      [] OTHER -> [d |-> d, ret |-> EINVAL]

\* command 1: query-config
command_query(d, arg0) ==
    CASE arg0 = 0 -> [d |-> d, ret |-> SuccessWithValue(WORD_SIZE)]
      [] arg0 = 1 -> [d |-> d, ret |-> SuccessWithValue(PAGE_SIZE)]
      [] arg0 = 2 -> [d |-> d, ret |-> SuccessWithValue(MAX_WORD_WRITES)]
      [] arg0 = 3 -> [d |-> d, ret |-> SuccessWithValue(MAX_PAGE_ERASES)]
      [] OTHER -> [d |-> d, ret |-> EINVAL]

\* command 2 leaving the region in the caller's record
command_write_keepregion(d, ptr, len, appid) ==
    LET slice == d.apps[appid].slice
    IN  IF slice = None THEN [d |-> d, ret |-> EINVAL]
        ELSE IF len # slice.len THEN [d |-> d, ret |-> EINVAL]
        ELSE IF d.waiting # None THEN [d |-> d, ret |-> EBUSY]
        ELSE write_slice([d EXCEPT !.waiting = Some(appid)], ptr, slice)

\* command 2: write.  app.slice.take() empties the caller's region first.
command_write(d, ptr, len, appid) ==
    LET slice == d.apps[appid].slice
        d1 == [d EXCEPT !.apps[appid].slice = None]
    IN  IF slice = None THEN [d |-> d1, ret |-> EINVAL]
        ELSE IF len # slice.len THEN [d |-> d1, ret |-> EINVAL]
        ELSE IF d1.waiting # None THEN [d |-> d1, ret |-> EBUSY]
        ELSE write_slice([d1 EXCEPT !.waiting = Some(appid)], ptr, slice)

\* command 3 without the check of the marker
command_erase_nobusy(d, ptr, len, appid) ==
    IF len # PAGE_SIZE THEN [d |-> d, ret |-> EINVAL]
    ELSE erase_page([d EXCEPT !.waiting = Some(appid)], ptr)

\* command 3 setting the marker before it checks it
command_erase_steal(d, ptr, len, appid) ==
    IF len # PAGE_SIZE THEN [d |-> d, ret |-> EINVAL]
    ELSE IF d.waiting # None THEN [d |-> [d EXCEPT !.waiting = Some(appid)], ret |-> EBUSY]
    ELSE erase_page([d EXCEPT !.waiting = Some(appid)], ptr)

\* command 3: erase
command_erase(d, ptr, len, appid) ==
    IF len # PAGE_SIZE THEN [d |-> d, ret |-> EINVAL]
    ELSE IF d.waiting # None THEN [d |-> d, ret |-> EBUSY]
    ELSE erase_page([d EXCEPT !.waiting = Some(appid)], ptr)

command(d, cmd, arg0, arg1, appid) ==
    CASE cmd = 0 -> [d |-> d, ret |-> SUCCESS]
      [] cmd = 1 -> command_query(d, arg0)
      [] cmd = 2 -> command_write(d, arg0, arg1, appid)
      [] cmd = 3 -> command_erase(d, arg0, arg1, appid)
      [] OTHER -> [d |-> d, ret |-> ENOSUPPORT]

erase_done(d, status) == done(d, status)

\* write_done leaving the pending-write state in its slot when it finalizes
write_done_keepstate(d, status) ==
    IF d.writing = None
    THEN [d EXCEPT !.panicked = TRUE]
    ELSE LET state == d.writing
             d1 == [d EXCEPT !.writing = None]
         IN  IF status # SUCCESS \/ state.offset = state.slice.len \div WORD_SIZE
             THEN done(d, status)
             ELSE write_block(d1, state).d

\* write_done going on with the next chunk whatever the status
write_done_ignorestatus(d, status) ==
    IF d.writing = None
    THEN [d EXCEPT !.panicked = TRUE]
    ELSE LET state == d.writing
             d1 == [d EXCEPT !.writing = None]
         IN  IF state.offset = state.slice.len \div WORD_SIZE
             THEN done(d1, status)
             ELSE write_block(d1, state).d

write_done(d, status) ==
    IF d.writing = None
    THEN [d EXCEPT !.panicked = TRUE]
    ELSE LET state == d.writing
             d1 == [d EXCEPT !.writing = None]
         IN  IF status # SUCCESS \/ state.offset = state.slice.len \div WORD_SIZE
             THEN done(d1, status)
             ELSE write_block(d1, state).d

\* ------------------------------------------------------------------
\* The fake flash hardware (h1b::hil::flash::fake::FakeHw), as the test
\* fake_hw of h1b_tests/src/hil/flash/fake.rs drives and observes it
\* ------------------------------------------------------------------
\* a u32 word 0xHHHHLLLL, kept as its two 16-bit halves
Word(hi, lo) == [hi |-> hi, lo |-> lo]
\* 0xFFFFFFFF, the value of an erased word
ERASED == Word(65535, 65535)
\* words of one page
WORDS_PER_PAGE == PAGE_SIZE \div WORD_SIZE
\* pages of the fake flash
MaxPages == 3
FlashWords == 0..(MaxPages * WORDS_PER_PAGE - 1)

\* a & b on the low n bits
RECURSIVE AndBits(_, _, _)
AndBits(a, b, n) ==
    IF n = 0 THEN 0
    ELSE (a % 2) * (b % 2) + 2 * AndBits(a \div 2, b \div 2, n - 1)
\* a & b on u32
And32(a, b) == Word(AndBits(a.hi, b.hi, 16), AndBits(a.lo, b.lo, 16))

\* FakeHw::new(): every word erased, no operation running.  `mem` holds the
\* words programmed since their last erase; every other word reads ERASED.
FakeHwNew ==
    [mem |-> [w \in {} |-> ERASED], offset |-> 0, size |-> 0, data |-> <<>>,
     opcode |-> "none", programming |-> FALSE, error |-> 0]

\* Hardware::read(offset)
read(h, offset) == IF offset \in DOMAIN h.mem THEN h.mem[offset] ELSE ERASED
\* Hardware::read_error()
read_error(h) == h.error
\* Hardware::is_programming()
is_programming(h) == h.programming

\* Hardware::set_transaction(offset, size): size is the number of words less one
set_transaction(h, offset, size) == [h EXCEPT !.offset = offset, !.size = size]
\* Hardware::set_write_data(data)
set_write_data(h, data) == [h EXCEPT !.data = data]
\* Hardware::trigger(opcode): the operation starts
trigger(h, opcode) ==
    [h EXCEPT !.opcode = opcode, !.programming = TRUE, !.error = 0]

\* the words a write transaction addresses
Addressed(h) == h.offset..(h.offset + h.size)
\* the page a word lies in
PageOf(w) == w \div WORDS_PER_PAGE

\* finish_operation programming the written values over the old ones
finish_operation_overwrite(h) ==
    IF h.opcode = "WRITE_OPCODE"
    THEN [h EXCEPT !.programming = FALSE,
                   !.mem = [w \in DOMAIN h.mem \cup Addressed(h) |->
                               IF w \in Addressed(h)
                               THEN h.data[w - h.offset + 1]
                               ELSE h.mem[w]]]
    ELSE [h EXCEPT !.programming = FALSE,
                   !.mem = [w \in {v \in DOMAIN h.mem : PageOf(v) # PageOf(h.offset)} |->
                               h.mem[w]]]

\* finish_operation erasing the whole flash
finish_operation_eraseall(h) ==
    IF h.opcode = "WRITE_OPCODE"
    THEN [h EXCEPT !.programming = FALSE,
                   !.mem = [w \in DOMAIN h.mem \cup Addressed(h) |->
                               IF w \in Addressed(h)
                               THEN And32(read(h, w), h.data[w - h.offset + 1])
                               ELSE h.mem[w]]]
    ELSE [h EXCEPT !.programming = FALSE, !.mem = [w \in {} |-> ERASED]]

\* FakeHw::finish_operation(): the running operation ends with success.  A
\* write clears in each addressed word the bits that are clear in the data;
\* an erase sets every word of the page of `offset`.
finish_operation(h) ==
    IF h.opcode = "WRITE_OPCODE"
    THEN [h EXCEPT !.programming = FALSE,
                   !.mem = [w \in DOMAIN h.mem \cup Addressed(h) |->
                               IF w \in Addressed(h)
                               THEN And32(read(h, w), h.data[w - h.offset + 1])
                               ELSE h.mem[w]]]
    ELSE [h EXCEPT !.programming = FALSE,
                   !.mem = [w \in {v \in DOMAIN h.mem : PageOf(v) # PageOf(h.offset)} |->
                               h.mem[w]]]

\* inject_error programming the data before it reports the error
inject_error_afterwrite(h, error) ==
    [finish_operation(h) EXCEPT !.error = error]

\* FakeHw::inject_error(error): the running operation ends with `error` and
\* changes no word
inject_error(h, error) ==
    [h EXCEPT !.programming = FALSE, !.error = error]

\* ------------------------------------------------------------------
\* The state machine
\* ------------------------------------------------------------------
NoReq == [op |-> "none", app |-> 0, ptr |-> 0, len |-> 0]
Entry(op, n, ret) == [op |-> op, n |-> n, ret |-> ret]

Init ==
    /\ apps = [p \in AppIds |-> [callback |-> None, slice |-> None]]
    /\ waiting = None
    /\ writing = None
    /\ panicked = FALSE
    /\ inflight = <<>>
    /\ req = NoReq
    /\ calls = <<>>
    /\ statuses = <<>>
    /\ cbs = <<>>
    /\ last = Entry("new", 0, SUCCESS)
    /\ fake = FakeHwNew
    /\ tpc = "idle"

\* the driver's fields after an entry point that produced d
Commit(d) ==
    /\ apps' = d.apps
    /\ waiting' = d.waiting
    /\ writing' = d.writing
    /\ panicked' = d.panicked
    /\ UNCHANGED <<fake, tpc>>

\* remove element i of sequence s
Remove(s, i) == SubSeq(s, 1, i - 1) \o SubSeq(s, i + 1, Len(s))

\* The request recorded in the history has been finalized: the completion path
\* has emptied the marker.  The next entry point starts a fresh history.
Finalized == req.op # "none" /\ waiting = None
CurReq == IF Finalized THEN NoReq ELSE req
CurCalls == IF Finalized THEN <<>> ELSE calls
CurStatuses == IF Finalized THEN <<>> ELSE statuses
CurCbs == IF Finalized THEN <<>> ELSE cbs

\* history after an entry point that is not a command
Record(d, newStatuses) ==
    /\ req' = CurReq
    /\ calls' = CurCalls \o d.issued
    /\ statuses' = CurStatuses \o newStatuses
    /\ cbs' = CurCbs \o d.sched

Subscribe(appid, subscribe_num, callback) ==
    LET r == subscribe(Driver, subscribe_num, callback, appid)
    IN  /\ ~panicked
        /\ Commit(r.d)
        /\ Record(r.d, <<>>)
        /\ last' = Entry("subscribe", subscribe_num, r.ret)
        /\ UNCHANGED inflight

Allow(appid, allow_num, slice) ==
    LET r == allow(Driver, appid, allow_num, slice)
    IN  /\ ~panicked
        /\ Commit(r.d)
        /\ Record(r.d, <<>>)
        /\ last' = Entry("allow", allow_num, r.ret)
        /\ UNCHANGED inflight

\* A command.  A write or erase that is accepted (it sets the marker and
\* returns success) becomes the request of the history.
Command(appid, cmd, arg0, arg1) ==
    LET r == command(Driver, cmd, arg0, arg1, appid)
        accepted == waiting = None /\ r.d.waiting # None /\ r.ret = SUCCESS
    IN  /\ ~panicked
        /\ Commit(r.d)
        /\ inflight' = inflight \o r.d.issued
        /\ last' = Entry("command", cmd, r.ret)
        /\ IF accepted
           THEN /\ req' = [op |-> IF cmd = 2 THEN "write" ELSE "erase", app |-> appid,
                           ptr |-> arg0, len |-> arg1]
                /\ calls' = r.d.issued
                /\ statuses' = <<>>
                /\ cbs' = r.d.sched
           ELSE Record(r.d, <<>>)

\* The hardware completes call i, a write, with `status`
HwWriteDone(i, status) ==
    /\ ~panicked
    /\ i \in 1..Len(inflight)
    /\ inflight[i].op = "write"
    /\ LET d == write_done(Driver, status)
       IN  /\ Commit(d)
           /\ Record(d, <<status>>)
           /\ inflight' = Remove(inflight, i) \o d.issued
           /\ last' = Entry("write_done", 0, status)

\* The hardware completes call i, an erase, with `status`
HwEraseDone(i, status) ==
    /\ ~panicked
    /\ i \in 1..Len(inflight)
    /\ inflight[i].op = "erase"
    /\ LET d == erase_done(Driver, status)
       IN  /\ Commit(d)
           /\ Record(d, <<status>>)
           /\ inflight' = Remove(inflight, i) \o d.issued
           /\ last' = Entry("erase_done", 0, status)

SubscribeStep ==
    \E p \in AppIds, n \in {0, 1} :
        \E cb \in {None, Callback(p)} : Subscribe(p, n, cb)
AllowStep ==
    \E p \in AppIds, n \in {0, 1} :
        \E s \in {None} \cup {AppSlice(p, l) : l \in SliceLens} : Allow(p, n, s)
CheckStep == \E p \in AppIds : Command(p, 0, 0, 0)
QueryStep == \E p \in AppIds, i \in 0..4 : Command(p, 1, i, 0)
WriteStep == \E p \in AppIds, ptr \in WritePtrs, len \in SliceLens : Command(p, 2, ptr, len)
EraseStep == \E p \in AppIds, ptr \in ErasePtrs, len \in EraseLens : Command(p, 3, ptr, len)
UnknownStep == \E p \in AppIds : Command(p, 4, 0, 0)
WriteDoneStep == \E i \in 1..Len(inflight), s \in HwStatuses : HwWriteDone(i, s)
EraseDoneStep == \E i \in 1..Len(inflight), s \in HwStatuses : HwEraseDone(i, s)

Next ==
    \/ SubscribeStep
    \/ AllowStep
    \/ CheckStep
    \/ QueryStep
    \/ WriteStep
    \/ EraseStep
    \/ UnknownStep
    \/ WriteDoneStep
    \/ EraseDoneStep

Spec == Init /\ [][Next]_vars

\* the hardware completes every call issued to it
FairSpec == Spec /\ WF_vars(WriteDoneStep) /\ WF_vars(EraseDoneStep)

\* ------------------------------------------------------------------
\* The fake hardware driven the way the test fake_hw drives it: a
\* transaction is set, a write gets its data, the operation is triggered and
\* then finished or failed
\* ------------------------------------------------------------------
\* word offsets of write transactions: the word the test writes, and the last
\* word of the second page
WriteOffsets == {1300, 2 * WORDS_PER_PAGE - 1}
\* word offsets of erase transactions: the second and the third page
EraseOffsets == {WORDS_PER_PAGE, 2 * WORDS_PER_PAGE}
\* the data of the test's three writes
WriteData ==
    {<<Word(65535, 4095), Word(65530, 65535)>>,
     <<Word(65535, 255), Word(65450, 65535)>>,
     <<Word(65535, 49407)>>}
\* the error the test injects, and another one
InjectedErrors == {8, 2}

driverVars == <<apps, waiting, writing, panicked, inflight, req, calls, statuses, cbs, last>>

SetTransaction(offset, size) ==
    /\ tpc \in {"idle", "finished", "failed"}
    /\ fake' = set_transaction(fake, offset, size)
    /\ tpc' = "transaction"
    /\ UNCHANGED driverVars

SetWriteData(data) ==
    /\ tpc = "transaction"
    /\ fake.offset \in WriteOffsets
    /\ Len(data) = fake.size + 1
    /\ fake' = set_write_data(fake, data)
    /\ tpc' = "data"
    /\ UNCHANGED driverVars

TriggerWrite ==
    /\ tpc = "data"
    /\ fake' = trigger(fake, "WRITE_OPCODE")
    /\ tpc' = "programming"
    /\ UNCHANGED driverVars

TriggerErase ==
    /\ tpc = "transaction"
    /\ fake.offset \in EraseOffsets
    /\ fake' = trigger(fake, "ERASE_OPCODE")
    /\ tpc' = "programming"
    /\ UNCHANGED driverVars

FinishOperation ==
    /\ tpc = "programming"
    /\ fake' = finish_operation(fake)
    /\ tpc' = "finished"
    /\ UNCHANGED driverVars

InjectError(error) ==
    /\ tpc = "programming"
    /\ fake.opcode = "WRITE_OPCODE"
    /\ fake' = inject_error(fake, error)
    /\ tpc' = "failed"
    /\ UNCHANGED driverVars

SetWriteTransactionStep == \E o \in WriteOffsets, n \in {0, 1} : SetTransaction(o, n)
SetEraseTransactionStep == \E o \in EraseOffsets : SetTransaction(o, 0)
SetWriteDataStep == \E data \in WriteData : SetWriteData(data)
InjectErrorStep == \E e \in InjectedErrors : InjectError(e)

FakeNext ==
    \/ SetWriteTransactionStep
    \/ SetEraseTransactionStep
    \/ SetWriteDataStep
    \/ TriggerWrite
    \/ TriggerErase
    \/ FinishOperation
    \/ InjectErrorStep

FakeSpec == Init /\ [][FakeNext]_vars

\* ------------------------------------------------------------------
\* Requests as the specification classifies them
\* ------------------------------------------------------------------
\* the write arguments pass the validation of the Write Chunker
WriteArgsValid(ptr, len) ==
    ptr >= FLASH_START /\ ptr % 4 = 0 /\ len % 4 = 0
\* the erase arguments pass the validation of the Erase Dispatcher
EraseArgsValid(ptr, len) ==
    ptr >= FLASH_START /\ ptr % 2048 = 0 /\ len = 2048
\* process p has shared a region of exactly len bytes
RegionMatches(p, len) ==
    apps[p].slice # None /\ apps[p].slice.len = len

\* ------------------------------------------------------------------
\* C1: in every reachable state at most one hardware operation (a write
\* chunk or an erase) has been issued and not yet completed.
\* ------------------------------------------------------------------
C1_AtMostOneInFlight == Len(inflight) <= 1

\* an operation is in flight and a command of another request was turned away
C1_Witness ==
    /\ Len(inflight) = 1
    /\ last.op = "command" /\ last.n \in {2, 3} /\ last.ret = EBUSY

\* ------------------------------------------------------------------
\* C2: between entry points, a set marker means exactly one hardware
\* operation is in flight; an empty marker means none is in flight and every
\* valid write or erase is admitted.
\* ------------------------------------------------------------------
C2_MarkerMatchesHardware ==
    /\ waiting # None => Len(inflight) = 1
    /\ waiting = None =>
        /\ Len(inflight) = 0
        /\ \A p \in AppIds :
            /\ \A ptr \in ErasePtrs, len \in EraseLens :
                EraseArgsValid(ptr, len) =>
                    LET r == command(Driver, 3, ptr, len, p)
                    IN  r.ret = SUCCESS /\ r.d.waiting = Some(p) /\ Len(r.d.issued) = 1
            /\ \A ptr \in WritePtrs, len \in SliceLens :
                (WriteArgsValid(ptr, len) /\ RegionMatches(p, len)) =>
                    LET r == command(Driver, 2, ptr, len, p)
                    IN  r.ret = SUCCESS /\ r.d.waiting = Some(p) /\ Len(r.d.issued) = 1

\* ------------------------------------------------------------------
\* C3: a write or erase command dispatched while the marker is set issues no
\* hardware call and mutates no driver state (marker, pending-write state,
\* every process's callback and region, the caller's own region included),
\* and is rejected with busy.
\* ------------------------------------------------------------------
C3_BusyRejectNoMutation ==
    [][(waiting # None /\ Len(inflight) = 1) =>
          \A p \in AppIds :
              /\ \A ptr \in WritePtrs, len \in SliceLens :
                  (Command(p, 2, ptr, len) /\ RegionMatches(p, len)) =>
                      /\ last'.ret = EBUSY
                      /\ inflight' = inflight
                      /\ UNCHANGED <<apps, waiting, writing>>
              /\ \A ptr \in ErasePtrs, len \in EraseLens :
                  (Command(p, 3, ptr, len) /\ len = 2048) =>
                      /\ last'.ret = EBUSY
                      /\ inflight' = inflight
                      /\ UNCHANGED <<apps, waiting, writing>>
      ]_vars

\* ------------------------------------------------------------------
\* C4: a second write or erase while an operation is outstanding returns busy
\* and leaves the original operation untouched: the marker names the same
\* requester, the pending-write state (target, region, cursor) and the calls
\* in flight are unchanged, and so are the callbacks the completion will use.
\* ------------------------------------------------------------------
\* what a write or erase command answers while the marker is set: busy, when
\* it passes the length check that precedes the check of the marker
BusyAnswer ==
    waiting # None =>
        \A p \in AppIds :
            /\ \A ptr \in WritePtrs, len \in SliceLens :
                LET r == command(Driver, 2, ptr, len, p)
                IN  /\ r.ret \in {EBUSY, EINVAL}
                    /\ RegionMatches(p, len) => r.ret = EBUSY
            /\ \A ptr \in ErasePtrs, len \in EraseLens :
                LET r == command(Driver, 3, ptr, len, p)
                IN  /\ r.ret \in {EBUSY, EINVAL}
                    /\ len = 2048 => r.ret = EBUSY

\* the step is a write or erase command
WriteOrEraseRan == last'.op = "command" /\ last'.n \in {2, 3}

C5_InvalidChangesNothing ==
    [][waiting = None =>
          \A p \in AppIds :
              /\ \A ptr \in WritePtrs, len \in SliceLens :
                  (Command(p, 2, ptr, len) /\ ~WriteArgsValid(ptr, len)) =>
                      (UNCHANGED <<apps, waiting, writing>> /\ inflight' = inflight)
              /\ \A ptr \in ErasePtrs, len \in EraseLens :
                  (Command(p, 3, ptr, len) /\ ~EraseArgsValid(ptr, len)) =>
                      (UNCHANGED <<apps, waiting, writing>> /\ inflight' = inflight)
      ]_vars

\* ------------------------------------------------------------------
\* C6: with the marker empty, write(addr, length) returns invalid-argument
\* and issues no hardware call whenever addr or length is not word-aligned,
\* or length differs from the length of the caller's shared region, or the
\* caller has no shared region.
\* ------------------------------------------------------------------
WriteRejected ==
    waiting = None =>
        \A p \in AppIds, ptr \in WritePtrs, len \in SliceLens :
            (ptr % 4 # 0 \/ len % 4 # 0 \/ ~RegionMatches(p, len)) =>
                LET r == command(Driver, 2, ptr, len, p)
                IN  r.ret = EINVAL /\ r.d.issued = <<>>

C6_WriteInvalidArgs ==
    /\ []WriteRejected
    /\ [][(last'.op = "command" /\ last'.n = 2 /\ last'.ret = EINVAL) =>
             (inflight' = inflight /\ calls' = CurCalls)]_vars

\* a write command was answered invalid-argument after the length check and
\* nothing was handed to the hardware
C6_Witness ==
    /\ last.op = "command" /\ last.n = 2 /\ last.ret = EINVAL
    /\ waiting # None
    /\ inflight = <<>> /\ calls = <<>> /\ writing = None

\* ------------------------------------------------------------------
\* C7: with the marker empty, erase(addr, length) returns invalid-argument
\* and issues no hardware call whenever addr is below the flash base or not
\* page-aligned, or length is not one page.
\* ------------------------------------------------------------------
EraseRejected ==
    waiting = None =>
        \A p \in AppIds, ptr \in ErasePtrs, len \in EraseLens :
            (ptr < 262144 \/ ptr % 2048 # 0 \/ len # 2048) =>
                LET r == command(Driver, 3, ptr, len, p)
                IN  r.ret = EINVAL /\ r.d.issued = <<>>

C7_EraseInvalidArgs ==
    /\ []EraseRejected
    /\ [][(last'.op = "command" /\ last'.n = 3 /\ last'.ret = EINVAL) =>
             (inflight' = inflight /\ calls' = CurCalls)]_vars

\* an erase command was answered invalid-argument and nothing was handed to
\* the hardware
C7_Witness ==
    /\ last.op = "command" /\ last.n = 3 /\ last.ret = EINVAL
    /\ inflight = <<>> /\ calls = <<>> /\ req = NoReq

\* ------------------------------------------------------------------
\* Chunks of the request of the history
\* ------------------------------------------------------------------
RECURSIVE SumLens(_, _)
\* words carried by the first n calls of s
SumLens(s, n) == IF n = 0 THEN 0 ELSE SumLens(s, n - 1) + s[n].len

Min3(a, b, c) == Min(Min(a, b), c)

RECURSIVE ChunksNeeded(_, _)
\* number of chunks the boundary rule cuts r words at word position p into
ChunksNeeded(p, r) ==
    IF r = 0 THEN 0
    ELSE LET c == Min3(64 - (p % 64), 32, r) IN 1 + ChunksNeeded(p + c, r - c)

AllSucceeded == \A i \in 1..Len(statuses) : statuses[i] = SUCCESS
LensOfCalls == [i \in 1..Len(calls) |-> calls[i].len]

\* ------------------------------------------------------------------
\* C8: every hardware write call covers words [p, p+len-1] of a single
\* 64-word-aligned block: floor(p/64) = floor((p+len-1)/64), p being the
\* first word index of the chunk and len its word count, for every accepted
\* write request, zero length included.
\* ------------------------------------------------------------------
C8_ChunkWithinBlock ==
    \A i \in 1..Len(calls) :
        calls[i].op = "write" =>
            LET p == calls[i].target + (262144 \div 4)
            IN  p \div 64 = (p + calls[i].len - 1) \div 64

\* ------------------------------------------------------------------
\* C9: each chunk of a write has length min(64 - (p mod 64), 32, r), p the
\* word position of the chunk (destination word plus words already written)
\* and r the words not yet written; no chunk exceeds 32 words; 32 words at the
\* base are one chunk of 32; 64 words at a position congruent to 32 mod 64 are
\* two chunks of 32.
\* ------------------------------------------------------------------
C9_ChunkLength ==
    req.op = "write" =>
        /\ \A i \in 1..Len(calls) :
            LET written == SumLens(calls, i - 1)
                p == (req.ptr \div 4) + written
                r == (req.len \div 4) - written
            IN  /\ calls[i].len = Min3(64 - (p % 64), 32, r)
                /\ calls[i].len <= 32
        /\ (Finalized /\ AllSucceeded /\ req.ptr = 262144 /\ req.len = 128) =>
               LensOfCalls = <<32>>
        /\ (Finalized /\ AllSucceeded /\ (req.ptr \div 4) % 64 = 32 /\ req.len = 256) =>
               LensOfCalls = <<32, 32>>

\* a write that starts 48 words into a block has been cut at the boundary and
\* at the call limit
C9_Witness ==
    /\ req.op = "write" /\ Finalized /\ AllSucceeded
    /\ (req.ptr \div 4) % 64 = 48
    /\ Len(calls) = 3 /\ calls[1].len = 16 /\ calls[2].len = 32

\* ------------------------------------------------------------------
\* C10: an accepted write by a process with a registered callback, on
\* hardware that completes every call, issues exactly the calls the boundary
\* rule needs to cover the requested words and schedules exactly one callback,
\* after the last chunk's completion, with status success iff every chunk
\* completed with success.
\* ------------------------------------------------------------------
C10_CallsAndCallback ==
    (Finalized /\ req.op = "write" /\ apps[req.app].callback # None) =>
        /\ AllSucceeded => Len(calls) = ChunksNeeded(req.ptr \div 4, req.len \div 4)
        /\ Len(statuses) = Len(calls)
        /\ Len(cbs) = 1
        /\ cbs[1].status = SUCCESS <=> AllSucceeded

\* ------------------------------------------------------------------
\* C11: when the hardware completes a chunk of a write with a non-success
\* status, the driver issues no further hardware call for the request, clears
\* the marker, and, if the requester has a callback registered, schedules
\* exactly one callback carrying that status; the words not yet handed to the
\* hardware are never written.
\* ------------------------------------------------------------------
\* the step is a write completion with a status other than success
WriteFailedStep == last'.op = "write_done" /\ last'.ret # SUCCESS

FailedWriteIsOver ==
    (req.op = "write" /\ ~AllSucceeded) =>
        /\ Finalized
        /\ writing = None /\ inflight = <<>>
        /\ Len(calls) = Len(statuses)
        /\ \A i \in 1..(Len(statuses) - 1) : statuses[i] = SUCCESS
        /\ IF apps[req.app].callback # None
           THEN cbs = <<[cb |-> apps[req.app].callback,
                         status |-> statuses[Len(statuses)], arg1 |-> 0, arg2 |-> 0]>>
           ELSE cbs = <<>>

C11_FailureAborts ==
    /\ []FailedWriteIsOver
    /\ [][WriteFailedStep =>
             /\ waiting # None /\ waiting' = None
             /\ writing' = None
             /\ inflight' = <<>>
             /\ calls' = calls
             /\ Len(cbs') <= 1
             /\ \A i \in 1..Len(cbs') : cbs'[i].status = last'.ret
       ]_vars

\* the first of several chunks failed: one call, one callback with the failure
C11_Witness ==
    /\ req.op = "write" /\ Finalized
    /\ ChunksNeeded(req.ptr \div 4, req.len \div 4) >= 2
    /\ Len(calls) = 1 /\ statuses = <<FAIL>>
    /\ Len(cbs) = 1 /\ cbs[1].status = FAIL

\* ------------------------------------------------------------------
\* C12: every callback the driver schedules belongs to the process that
\* issued the operation being finalized, carries the hardware completion
\* status and auxiliary arguments 0; no callback of another process is
\* scheduled for the operation.
\* ------------------------------------------------------------------
CallbacksOfRequester ==
    /\ Len(cbs) <= 1
    /\ \A i \in 1..Len(cbs) :
        /\ req.op # "none" /\ Finalized
        /\ cbs[i].cb.app_id = req.app
        /\ cbs[i].cb = apps[req.app].callback
        /\ Len(statuses) >= 1 /\ cbs[i].status = statuses[Len(statuses)]
        /\ cbs[i].arg1 = 0 /\ cbs[i].arg2 = 0

C12_CallbackToRequester ==
    /\ []CallbacksOfRequester
    /\ [][cbs' # CurCbs =>
             /\ last'.op \in {"write_done", "erase_done"}
             /\ waiting = Some(req.app) /\ waiting' = None
             /\ cbs' = <<[cb |-> Callback(req.app), status |-> last'.ret,
                          arg1 |-> 0, arg2 |-> 0]>>
       ]_vars

\* both processes have a callback registered and the one of the requester,
\* process 2, was scheduled with the failure status of its erase
C12_Witness ==
    /\ Finalized /\ req.app = 2
    /\ \A p \in AppIds : apps[p].callback # None
    /\ cbs = <<[cb |-> Callback(2), status |-> FAIL, arg1 |-> 0, arg2 |-> 0]>>

\* ------------------------------------------------------------------
\* C13: if the requester has no callback registered when its operation is
\* finalized, the marker is cleared and no callback is scheduled, neither then
\* nor by any later registration: callbacks are scheduled by completions only.
\* ------------------------------------------------------------------
\* the step is a hardware completion
CompletionStep == last'.op \in {"write_done", "erase_done"}

C13_StatusDropped ==
    [][/\ (CompletionStep /\ waiting # None /\ waiting' # waiting) =>
            /\ waiting' = None
            /\ apps[waiting.some].callback = None => cbs' = <<>>
       /\ (CompletionStep /\ waiting # None /\ apps[waiting.some].callback = None
             /\ (last'.op = "erase_done" \/ last'.ret # SUCCESS)) =>
            (waiting' = None /\ cbs' = <<>>)
       /\ ~CompletionStep => cbs' = CurCbs
      ]_vars

\* an operation was finalized while its requester had no callback
C13_Witness ==
    /\ Finalized /\ Len(statuses) >= 1
    /\ apps[req.app].callback = None
    /\ cbs = <<>>
    /\ last.op \in {"write_done", "erase_done"}

\* ------------------------------------------------------------------
\* C14: an accepted erase issues exactly one hardware erase call, for page
\* (addr - flash base) / page size, issues no hardware write call, and is
\* finalized by one completion: marker cleared, at most one callback carrying
\* the status of the erase.
\* ------------------------------------------------------------------
C14_EraseOneCall ==
    req.op = "erase" =>
        /\ calls = <<[op |-> "erase", target |-> (req.ptr - 262144) \div 2048, len |-> 0]>>
        /\ writing = None
        /\ IF Finalized
           THEN /\ inflight = <<>>
                /\ Len(statuses) = 1
                /\ IF apps[req.app].callback # None
                   THEN cbs = <<[cb |-> apps[req.app].callback, status |-> statuses[1],
                                 arg1 |-> 0, arg2 |-> 0]>>
                   ELSE cbs = <<>>
           ELSE /\ inflight = calls
                /\ waiting = Some(req.app)
                /\ statuses = <<>> /\ cbs = <<>>

\* the erase of page 1 was finalized with a failure reported to the requester
C14_Witness ==
    /\ req.op = "erase" /\ req.ptr = 262144 + 2048 /\ Finalized
    /\ calls[1].target = 1
    /\ statuses = <<FAIL>>
    /\ Len(cbs) = 1 /\ cbs[1].status = FAIL

\* ------------------------------------------------------------------
\* C15: the driver never stays busy forever: when the hardware completes
\* every call issued to it, every state with the marker set is followed by a
\* state with the marker empty.
\* ------------------------------------------------------------------
C15_BusyLeadsToIdle == (waiting # None) ~> (waiting = None)

\* ------------------------------------------------------------------
\* C16: within one write request every chunk starts at the word where the
\* previous one ended, so chunks are issued in strictly increasing cursor
\* order; a chunk is issued only after the completion of the previous one, and
\* no two chunks are in flight together.
\* ------------------------------------------------------------------
ChunksInOrder ==
    req.op = "write" =>
        /\ \A i \in 1..Len(calls) :
            /\ calls[i].op = "write"
            /\ calls[i].target = (req.ptr - 262144) \div 4 + SumLens(calls, i - 1)
        /\ \A i \in 1..(Len(calls) - 1) : calls[i].target < calls[i + 1].target
        /\ Len(statuses) \in {Len(calls) - 1, Len(calls)}
        /\ Len(inflight) = Len(calls) - Len(statuses)
        /\ \A i \in 1..Len(inflight) : inflight[i] = calls[Len(calls)]

C16_ChunksInCursorOrder ==
    /\ []ChunksInOrder
    /\ [][(req.op = "write" /\ ~Finalized /\ calls' # calls) =>
             /\ last'.op = "write_done" /\ last'.ret = SUCCESS
             /\ Len(statuses') = Len(calls)
             /\ Len(calls') = Len(calls) + 1
             /\ inflight' = <<calls'[Len(calls')]>>
       ]_vars

\* the third chunk of a write is in flight after two completions
C16_Witness ==
    /\ req.op = "write" /\ ~Finalized
    /\ Len(calls) = 3 /\ Len(statuses) = 2
    /\ calls[1].target < calls[2].target /\ calls[2].target < calls[3].target
    /\ inflight = <<calls[3]>>

\* ------------------------------------------------------------------
\* C17: between entry points a pending-write state is stored if and only if
\* the marker is set and the operation outstanding on the hardware is a
\* write: it is absent when idle and while an erase is outstanding, and
\* present as long as a write is outstanding.
\* ------------------------------------------------------------------
WriteOutstanding == \E i \in 1..Len(inflight) : inflight[i].op = "write"
EraseOutstanding == \E i \in 1..Len(inflight) : inflight[i].op = "erase"

C17_PendingWriteIffWrite ==
    /\ writing # None <=> (waiting # None /\ WriteOutstanding)
    /\ waiting = None => writing = None
    /\ EraseOutstanding => writing = None
    /\ WriteOutstanding => (writing # None /\ waiting = Some(writing.slice.app))

\* a write is past its first chunk and its pending-write state is stored
C17_Witness ==
    /\ WriteOutstanding /\ writing # None /\ writing.offset > 32
    /\ Len(statuses) >= 1

\* ------------------------------------------------------------------
\* C18: a set marker becomes empty only in the completion path (an erase
\* completion, or a write completion that is the last chunk or a failed one);
\* no command, register-callback or register-region call clears or overwrites
\* it, and a write completion that leaves chunks keeps it on the same process.
\* ------------------------------------------------------------------
C18_MarkerClearedByCompletionOnly ==
    [][waiting # None =>
          /\ waiting' # waiting =>
                /\ waiting' = None
                /\ CompletionStep
                /\ last'.op = "write_done" =>
                      /\ writing # None
                      /\ \/ last'.ret # SUCCESS
                         \/ writing.offset = writing.slice.len \div 4
          /\ (last'.op = "write_done" /\ last'.ret = SUCCESS /\ writing # None
                /\ writing.offset < writing.slice.len \div 4) => waiting' = waiting
          /\ last'.op \in {"command", "subscribe", "allow"} => waiting' = waiting
      ]_vars

\* a chunk completed with success, chunks remain and the marker still names
\* the requester
C18_Witness ==
    /\ last.op = "write_done" /\ last.ret = SUCCESS
    /\ req.op = "write" /\ waiting = Some(req.app)
    /\ Len(statuses) >= 1 /\ Len(inflight) = 1

\* ------------------------------------------------------------------
\* C19: command 1 answers success with 4 for index 0, 2048 for index 1, 2 for
\* index 2 and 10000 for index 3, and invalid-argument for any other index,
\* whether or not an operation is outstanding, and changes no driver state.
\* ------------------------------------------------------------------
QueryIndexes == 0..5

QueryAnswer(i) ==
    CASE i = 0 -> SuccessWithValue(4)
      [] i = 1 -> SuccessWithValue(2048)
      [] i = 2 -> SuccessWithValue(2)
      [] i = 3 -> SuccessWithValue(10000)
      [] OTHER -> EINVAL

QueryAnswers ==
    \A p \in AppIds, i \in QueryIndexes, a1 \in {0, PAGE_SIZE} :
        command(Driver, 1, i, a1, p) = [d |-> Driver, ret |-> QueryAnswer(i)]

C19_QueryConfig ==
    /\ []QueryAnswers
    /\ [][(last'.op = "command" /\ last'.n = 1) =>
             /\ UNCHANGED <<apps, waiting, writing, panicked, inflight>>
             /\ calls' = CurCalls /\ statuses' = CurStatuses /\ cbs' = CurCbs
             /\ last'.ret \in {QueryAnswer(i) : i \in QueryIndexes}
       ]_vars

\* the page size was answered while a chunk of a write was in flight
C19_Witness ==
    /\ last = Entry("command", 1, SuccessWithValue(2048))
    /\ waiting # None /\ writing # None /\ Len(inflight) = 1

\* ------------------------------------------------------------------
\* C20: subscribe 0 and allow 0 change only the caller's own record: the
\* callback and region of every other process, the marker and the
\* pending-write state of a write in flight stay as they are, also when the
\* caller is the process whose write is in flight.
\* ------------------------------------------------------------------
RegisterTouchesOwnRecord ==
    \A p \in AppIds :
        /\ \A cb \in {None, Callback(p)} :
              subscribe(Driver, 0, cb, p) =
                  [d |-> [Driver EXCEPT !.apps[p].callback = cb], ret |-> SUCCESS]
        /\ \A s \in {None} \cup {AppSlice(p, l) : l \in SliceLens} :
              allow(Driver, p, 0, s) =
                  [d |-> [Driver EXCEPT !.apps[p].slice = s], ret |-> SUCCESS]

C20_RegisterOwnRecordOnly ==
    /\ []RegisterTouchesOwnRecord
    /\ [][last'.op \in {"subscribe", "allow"} =>
             /\ UNCHANGED <<waiting, writing, panicked, inflight>>
             /\ calls' = CurCalls /\ statuses' = CurStatuses /\ cbs' = CurCbs
             /\ \A p, q \in AppIds : (apps'[p] # apps[p] /\ apps'[q] # apps[q]) => p = q
             /\ last'.op = "subscribe" => \A p \in AppIds : apps'[p].slice = apps[p].slice
             /\ last'.op = "allow" => \A p \in AppIds : apps'[p].callback = apps[p].callback
       ]_vars

\* the process whose write is in flight has shared another region and the
\* pending-write state still holds the region the write was started with
C20_Witness ==
    /\ last = Entry("allow", 0, SUCCESS)
    /\ writing # None /\ waiting = Some(writing.slice.app) /\ Len(inflight) = 1
    /\ apps[writing.slice.app].slice # None
    /\ apps[writing.slice.app].slice # writing.slice

\* ------------------------------------------------------------------
\* C21: in the fake hardware a write that ends with an injected error leaves
\* every flash word as it was, makes the injected code readable through
\* read_error and ends the programming state.
\* ------------------------------------------------------------------
WriteRunning == tpc = "programming" /\ fake.opcode = "WRITE_OPCODE"

InjectedErrorReadable ==
    WriteRunning =>
        \A e \in InjectedErrors :
            /\ read_error(inject_error(fake, e)) = e
            /\ ~is_programming(inject_error(fake, e))
            /\ \A w \in Addressed(fake) : read(inject_error(fake, e), w) = read(fake, w)

C21_FailedWriteChangesNothing ==
    /\ []InjectedErrorReadable
    /\ [][tpc' = "failed" =>
             /\ WriteRunning /\ is_programming(fake)
             /\ \A w \in FlashWords : read(fake', w) = read(fake, w)
             /\ read_error(fake') \in InjectedErrors
             /\ ~is_programming(fake')
       ]_vars

\* the second operation of the test: words 1300 and 1301 hold the values of
\* the first write after a write of other data failed with error 8
C21_Witness ==
    /\ tpc = "failed" /\ read_error(fake) = 8 /\ ~is_programming(fake)
    /\ fake.offset = 1300 /\ fake.data = <<Word(65535, 255), Word(65450, 65535)>>
    /\ read(fake, 1300) = Word(65535, 4095)
    /\ read(fake, 1301) = Word(65530, 65535)

\* ------------------------------------------------------------------
\* C22: in the fake hardware a write of n words at word offset t that
\* finishes with success replaces each word t..t+n-1 by the AND of its old
\* value and the written value (bits are cleared, never set) and leaves every
\* other word unchanged; read_error is 0, and is_programming is true from
\* the trigger until the operation finishes and false afterwards.
\* ------------------------------------------------------------------
\* bit k of a 16-bit half
Bit(x, k) == (x \div (2 ^ k)) % 2
\* every bit of `new` is the bit of `old` unless the bit of `data` is clear
ClearsBits(new, old, data) ==
    \A k \in 0..15 :
        /\ Bit(new.hi, k) = (IF Bit(data.hi, k) = 0 THEN 0 ELSE Bit(old.hi, k))
        /\ Bit(new.lo, k) = (IF Bit(data.lo, k) = 0 THEN 0 ELSE Bit(old.lo, k))

ProgrammingWhileRunning ==
    /\ is_programming(fake) <=> tpc = "programming"
    /\ tpc \in {"programming", "finished"} => read_error(fake) = 0

C22_WriteAndsWords ==
    /\ []ProgrammingWhileRunning
    /\ [][(WriteRunning /\ tpc' = "finished") =>
             /\ \A w \in FlashWords :
                   IF w \in fake.offset..(fake.offset + Len(fake.data) - 1)
                   THEN ClearsBits(read(fake', w), read(fake, w), fake.data[w - fake.offset + 1])
                   ELSE read(fake', w) = read(fake, w)
             /\ Len(fake.data) = fake.size + 1
             /\ read_error(fake') = 0
             /\ ~is_programming(fake')
       ]_vars

\* the third operation of the test: 0xFFFFC0FF written over 0xFFFF0FFF at word
\* 1300 gives 0xFFFF00FF, and word 1301 keeps 0xFFFAFFFF
C22_Witness ==
    /\ tpc = "finished" /\ fake.opcode = "WRITE_OPCODE" /\ read_error(fake) = 0
    /\ fake.offset = 1300 /\ fake.size = 0 /\ fake.data = <<Word(65535, 49407)>>
    /\ read(fake, 1300) = Word(65535, 255)
    /\ read(fake, 1301) = Word(65530, 65535)

\* ------------------------------------------------------------------
\* C23: in the fake hardware an erase of a page that finishes with success
\* sets each of the 512 words of that page to 0xFFFFFFFF and leaves the words
\* of every other page unchanged.
\* ------------------------------------------------------------------
EraseRunning == tpc = "programming" /\ fake.opcode = "ERASE_OPCODE"

C23_EraseSetsPage ==
    [][(EraseRunning /\ tpc' = "finished") =>
          /\ \A w \in FlashWords :
                IF w \in (PageOf(fake.offset) * 512)..(PageOf(fake.offset) * 512 + 511)
                THEN read(fake', w) = Word(65535, 65535)
                ELSE read(fake', w) = read(fake, w)
          /\ fake.offset % 512 = 0
    ]_vars

\* the third page has been erased after a two-word write: the words of the
\* third page read erased and the last word of the second page is still
\* programmed
C23_Witness ==
    /\ tpc = "finished" /\ fake.opcode = "ERASE_OPCODE" /\ fake.offset = 1024
    /\ Len(fake.data) = 2
    /\ read(fake, 1023) = Word(65535, 4095)
    /\ read(fake, 1024) = ERASED
    /\ read(fake, 1300) = ERASED

\* ------------------------------------------------------------------
\* C24: for a write whose chunks all succeed, the hardware write calls in issue
\* order tile the destination: the first target is (addr - flash base) / 4,
\* each later target is the previous target plus the previous length, the
\* lengths sum to length / 4, and the call at cursor c carries the words
\* c..c+len-1 of the region, each the little-endian value of its four bytes.
\* ------------------------------------------------------------------
\* word c of the region shared by process p: bytes c, 0x10+p, 0x20+p, 0x30+p
RegionWord(p, c) == (c % 128) + 256 * (16 + p) + 65536 * (32 + p) + 16777216 * (48 + p)

C24_CallsTileDestination ==
    (req.op = "write" /\ AllSucceeded) =>
        /\ \A i \in 1..Len(calls) :
            /\ calls[i].op = "write"
            /\ calls[i].target = (req.ptr - 262144) \div 4 + SumLens(calls, i - 1)
            /\ Len(calls[i].data) = calls[i].len
            /\ \A k \in 1..calls[i].len :
                  calls[i].data[k] = RegionWord(req.app, SumLens(calls, i - 1) + k - 1)
        /\ SumLens(calls, Len(calls)) <= req.len \div 4
        /\ Finalized => SumLens(calls, Len(calls)) = req.len \div 4

\* a write of 64 words at word 48 of a block has finished in three calls;
\* the third call starts at word 48 of the region
C24_Witness ==
    /\ req.op = "write" /\ Finalized /\ AllSucceeded /\ req.len = 256
    /\ Len(calls) = 3 /\ Len(statuses) = 3
    /\ calls[3].target = calls[1].target + 48
    /\ calls[3].len = 16 /\ calls[3].data[1] = RegionWord(req.app, 48)
    /\ calls[2].data[32] = RegionWord(req.app, 47)

\* ------------------------------------------------------------------
\* C25: the driver never aborts: with hardware that completes only calls it
\* was issued, every write completion finds a pending-write state, the cursor
\* stays within 0..region length in words, and no chunk is longer than the
\* 32-word buffer.
\* ------------------------------------------------------------------
C25_NeverAborts ==
    /\ ~panicked
    /\ WriteOutstanding => writing # None
    /\ writing # None =>
          /\ 0 <= writing.offset
          /\ writing.offset <= writing.slice.len \div 4
          /\ writing.slice.len % 4 = 0
          /\ writing.ptr >= 65536
    /\ \A i \in 1..Len(inflight) : inflight[i].len >= 0 /\ inflight[i].len <= 32
    /\ \A i \in 1..Len(calls) : calls[i].len >= 0 /\ calls[i].len <= 32

\* the completion of the second chunk of a write has found its state and
\* the third chunk is in flight
C25_Witness ==
    /\ last.op = "write_done" /\ req.op = "write" /\ Len(statuses) = 2
    /\ writing # None /\ writing.offset = writing.slice.len \div 4
    /\ Len(inflight) = 1 /\ inflight[1].len = 16

\* ------------------------------------------------------------------
\* C26: a shared region serves one write command: a write command removes
\* the caller's region from its record whatever the outcome, so a second
\* write command without a new allow returns invalid-argument and issues no
\* hardware call; a completion never puts a region back.
\* ------------------------------------------------------------------
\* a write command by p leaves p without a region, and without a region it
\* is answered invalid-argument with no call issued and nothing else changed
WriteConsumesRegion ==
    \A p \in AppIds, ptr \in WritePtrs, len \in SliceLens :
        LET r == command(Driver, 2, ptr, len, p)
        IN  /\ r.d.apps[p].slice = None
            /\ \A q \in AppIds \ {p} : r.d.apps[q] = apps[q]
            /\ r.d.apps[p].callback = apps[p].callback
            /\ apps[p].slice = None => r = [d |-> Driver, ret |-> EINVAL]
            /\ LET r2 == command(r.d, 2, ptr, len, p)
               IN  /\ r2.ret = EINVAL
                   /\ r2.d = r.d

C26_RegionServesOneWrite ==
    /\ []WriteConsumesRegion
    /\ [][/\ (last'.op = "command" /\ last'.n = 2) =>
                /\ \E p \in AppIds :
                      /\ apps'[p].slice = None
                      /\ \A q \in AppIds \ {p} : apps'[q] = apps[q]
                /\ last'.ret = SUCCESS => \E p \in AppIds : apps[p].slice # None /\ apps'[p].slice = None
          /\ CompletionStep => apps' = apps
          /\ \A p \in AppIds :
                (apps[p].slice = None /\ apps'[p].slice # None) => last'.op = "allow"
       ]_vars

\* the write of a process has finished with success and the process has no
\* region any more though it has shared none since
C26_Witness ==
    /\ req.op = "write" /\ Finalized /\ AllSucceeded /\ last.op = "write_done"
    /\ Len(calls) >= 2
    /\ apps[req.app].slice = None

====
